---- MODULE Spec2Model ----
(***************************************************************************)
(* A model of pyinvoice.templates.SimpleInvoice: the document state, the   *)
(* caller-facing setters, the section builders run by finish(), and the    *)
(* pure helpers getroundeddecimal and _attribute_to_table_data.  A         *)
(* behaviour follows one document from its construction to the return of   *)
(* its first finish().                                                     *)
(***************************************************************************)
EXTENDS Integers, Sequences, FiniteSets, TLC

VARIABLES
    invoice_info,           \* self.invoice_info
    service_provider_info,  \* self.service_provider_info
    client_info,            \* self.client_info
    is_paid,                \* self.is_paid
    precision,              \* self.precision
    items,                  \* self._items
    item_tax_rate,          \* self._item_tax_rate
    transactions,           \* self._transactions
    story,                  \* self._story
    bottom_tip,             \* self._bottom_tip, self._bottom_tip_align
    logo,                   \* self._logo
    build_kwargs,           \* self._build_kwargs
    pc,                     \* position of the caller / of finish()
    built,                  \* the calls made to SimpleDocTemplate.build
    log,                    \* history: every call of add_item / add_transaction
    call,                   \* arguments of a direct call of a helper
    ret                     \* the values such calls returned, in order

vars == <<invoice_info, service_provider_info, client_info, is_paid, precision,
          items, item_tax_rate, transactions, story, bottom_tip, logo,
          build_kwargs, pc, built, log, call, ret>>

docvars == <<invoice_info, service_provider_info, client_info, is_paid, precision,
             items, item_tax_rate, transactions, story, bottom_tip, logo,
             build_kwargs, built>>

-----------------------------------------------------------------------------
(* Bounds of the model.                                                    *)

\* calls of add_item / add_transaction made before finish()
MaxAdds == 2
\* items of an invoice whose summary rows are checked
MaxItems == 2
\* largest absolute coefficient of a decimal handed to getroundeddecimal
MaxCoef == 30
\* longest (field, label) list handed to _attribute_to_table_data
MaxProps == 3

-----------------------------------------------------------------------------
(* Python values.  Every value is a record of one shape; k is its type.    *)

None == [k |-> "none", s |-> "", n |-> 0, dt |-> <<>>]
Str(s) == [k |-> "str", s |-> s, n |-> 0, dt |-> <<>>]
IntV(n) == [k |-> "int", s |-> "", n |-> n, dt |-> <<>>]
\* datetime.date(y, mo, d)
Date(y, mo, d) == [k |-> "date", s |-> "", n |-> 0, dt |-> <<y, mo, d>>]
\* datetime.datetime(y, mo, d, H, M)
DateTime(y, mo, d, H, M) == [k |-> "datetime", s |-> "", n |-> 0, dt |-> <<y, mo, d, H, M>>]
\* reportlab Paragraph(text, style) used as a table cell
ParaCell(text) == [k |-> "para", s |-> text, n |-> 0, dt |-> <<>>]
\* the text '{0:.2f}'.format(x): n is the figure in hundredths
Fig(n) == [k |-> "fig", s |-> "", n |-> n, dt |-> <<>>]

\* Python truth value of an attribute (None, '' and 0 are falsy)
Truthy(v) == ~(v.k = "none" \/ (v.k = "str" /\ v.s = "") \/ (v.k = "int" /\ v.n = 0))

\* zero-padded decimal text of n, w digits wide (strftime's %m, %d, %H, %M)
RECURSIVE Pad(_, _)
Pad(n, w) == IF w <= 1 THEN ToString(n % 10) ELSE Pad(n \div 10, w - 1) \o ToString(n % 10)

\* SimpleInvoice._format_value
FormatValue(value) ==
    IF value.k = "datetime"
    THEN Str(Pad(value.dt[1], 4) \o "-" \o Pad(value.dt[2], 2) \o "-" \o Pad(value.dt[3], 2)
             \o " " \o Pad(value.dt[4], 2) \o ":" \o Pad(value.dt[5], 2))
    ELSE IF value.k = "date"
    THEN Str(Pad(value.dt[1], 4) \o "-" \o Pad(value.dt[2], 2) \o "-" \o Pad(value.dt[3], 2))
    ELSE value

-----------------------------------------------------------------------------
(* decimal.Decimal: the value c * 10^e.                                    *)

Dec(c, e) == [c |-> c, e |-> e]

RECURSIVE Pow10(_)
Pow10(n) == IF n <= 0 THEN 1 ELSE 10 * Pow10(n - 1)

Abs(x) == IF x < 0 THEN -x ELSE x
Min(a, b) == IF a < b THEN a ELSE b
Max(a, b) == IF a < b THEN b ELSE a

\* Decimal.__add__ (exact: the result takes the smaller exponent)
DecAdd(a, b) ==
    LET e == Min(a.e, b.e)
    IN  Dec(a.c * Pow10(a.e - e) + b.c * Pow10(b.e - e), e)

\* Decimal.__mul__ (exact)
DecMul(a, b) == Dec(a.c * b.c, a.e + b.e)

\* Decimal.quantize(exp, rounding): the coefficient rescaled to exponent exp.
\* The discarded digits decide the rounding: ROUND_HALF_UP looks at the first
\* discarded digit, ROUND_HALF_EVEN also at the parity of the kept part.
Quantize(d, exp, rounding) ==
    IF d.e >= exp
    THEN Dec(d.c * Pow10(d.e - exp), exp)
    ELSE LET m == Pow10(exp - d.e)
             q == Abs(d.c) \div m
             r == Abs(d.c) % m
             up == IF rounding = "ROUND_HALF_UP" THEN (r \div (m \div 10)) >= 5
                   ELSE IF rounding = "ROUND_HALF_EVEN"
                        THEN 2 * r > m \/ (2 * r = m /\ q % 2 = 1)
                   ELSE FALSE
             a == IF up THEN q + 1 ELSE q
         IN  Dec(IF d.c < 0 THEN -a ELSE a, exp)

\* a mutant: banker's rounding
GetRoundedDecimalHalfEven(nrtoround, prec) == Quantize(nrtoround, prec.e, "ROUND_HALF_EVEN")

\* SimpleInvoice.getroundeddecimal: only the exponent of precision is used
getroundeddecimal(nrtoround, prec) == Quantize(nrtoround, prec.e, "ROUND_HALF_UP")

\* '{0:.2f}'.format(x) of a Decimal: two places under the context's
\* rounding, ROUND_HALF_EVEN; the result is held in hundredths
Format2f(d) == Fig(Quantize(d, -2, "ROUND_HALF_EVEN").c)

-----------------------------------------------------------------------------
(* Entities (pyinvoice.models) and the display-field registries.           *)

InvoiceInfoProps ==
    << <<"invoice_id", "Invoice id">>, <<"invoice_datetime", "Invoice date">>,
       <<"due_datetime", "Invoice due date">> >>

ServiceProviderProps ==
    << <<"name", "Name">>, <<"street", "Street">>, <<"city", "City">>, <<"state", "State">>,
       <<"country", "Country">>, <<"post_code", "Post code">>,
       <<"vat_tax_number", "Vat/Tax number">> >>

ClientProps ==
    << <<"name", "Name">>, <<"street", "Street">>, <<"city", "City">>, <<"state", "State">>,
       <<"country", "Country">>, <<"post_code", "Post code">>, <<"email", "Email">>,
       <<"client_id", "Client id">> >>

FieldsOf(props) == {props[i][1] : i \in 1..Len(props)}

\* an instance of class kind holding attrs (field -> value)
Entity(kind, attrs) == [kind |-> kind, attrs |-> attrs]
NoEntity == Entity("NoneType", <<>>)

\* a mutant: the truth test dropped, one row per field
AttributeToTableDataNoSkip(instance, attribute_verbose_name_list) ==
    [i \in 1..Len(attribute_verbose_name_list) |->
        << Str(attribute_verbose_name_list[i][2] \o ":"),
           FormatValue(instance.attrs[attribute_verbose_name_list[i][1]]) >>]

\* SimpleInvoice._attribute_to_table_data
RECURSIVE AttributeToTableDataFrom(_, _, _)
AttributeToTableDataFrom(instance, lst, i) ==
    IF i > Len(lst) THEN <<>>
    ELSE LET attr == instance.attrs[lst[i][1]]
             rest == AttributeToTableDataFrom(instance, lst, i + 1)
         IN  IF Truthy(attr)
             THEN << << Str(lst[i][2] \o ":"), FormatValue(attr) >> >> \o rest
             ELSE rest

AttributeToTableData(instance, attribute_verbose_name_list) ==
    AttributeToTableDataFrom(instance, attribute_verbose_name_list, 1)

\* SimpleInvoice._invoice_info_data
InvoiceInfoData(ii) ==
    IF ii.kind = "InvoiceInfo" THEN AttributeToTableData(ii, InvoiceInfoProps) ELSE <<>>

\* SimpleInvoice._service_provider_data
ServiceProviderData(sp) ==
    IF sp.kind = "ServiceProviderInfo" THEN AttributeToTableData(sp, ServiceProviderProps)
    ELSE <<>>

\* SimpleInvoice._client_info_data
ClientInfoData(ci) ==
    IF ci.kind # "ClientInfo" THEN <<>> ELSE AttributeToTableData(ci, ClientProps)

-----------------------------------------------------------------------------
(* Story blocks (reportlab flowables) and grid-style directives.           *)

Block(type, text, style, data, tstyle, align) ==
    [type |-> type, text |-> text, style |-> style, data |-> data,
     tstyle |-> tstyle, align |-> align]

Paragraph(text, style) == Block("Paragraph", text, style, <<>>, <<>>, "")
SimpleTable(data, align) == Block("SimpleTable", "", "", data, <<>>, align)
TableWithHeader(data, align, style) == Block("TableWithHeader", "", "", data, style, align)
Table(data, style) == Block("Table", "", "", data, style, "")
Spacer == Block("Spacer", "", "", <<>>, <<>>, "")
Image(ref) == Block("Image", ref, "", <<>>, <<>>, "")

\* (op, (c0, r0), (c1, r1)): a directive over a rectangular cell range
Directive(op, c0, r0, c1, r1, arg) ==
    [op |-> op, c0 |-> c0, r0 |-> r0, c1 |-> c1, r1 |-> r1, arg |-> arg]

\* n copies of x in a row: Python's [x] * n
RECURSIVE Repeat(_, _)
Repeat(x, n) == IF n <= 0 THEN <<>> ELSE <<x>> \o Repeat(x, n - 1)

\* zip(a, b): as long as the shorter argument
Zip(a, b) == [i \in 1..Min(Len(a), Len(b)) |-> <<a[i], b[i]>>]

\* the header row and the style of the merged party table
MergedHeader ==
    << ParaCell("Service Provider"), Str(""), Str(""), ParaCell("Client"), Str("") >>

MergedTableStyle ==
    << Directive("SPAN", 0, 0, 1, 0, ""), Directive("SPAN", 3, 0, 4, 0, ""),
       Directive("LINEBELOW", 0, 0, 1, 0, "gray"), Directive("LINEBELOW", 3, 0, 4, 0, "gray"),
       Directive("LEFTPADDING", 0, 0, -1, -1, "0") >>

\* the merged party table of _build_service_provider_and_client_info
MergedTableData(sp, ci) ==
    LET client_info_data == ClientInfoData(ci)
        service_provider_data == ServiceProviderData(sp)
        diff == Abs(Len(client_info_data) - Len(service_provider_data))
        \* client_info_data.extend([["", ""]]*diff)
        cpad == IF diff > 0 /\ Len(client_info_data) < Len(service_provider_data)
                THEN client_info_data \o Repeat(<<Str(""), Str("")>>, diff)
                ELSE client_info_data
        \* service_provider_data.extend([["", ""]*diff])
        spad == IF diff > 0 /\ ~(Len(client_info_data) < Len(service_provider_data))
                THEN service_provider_data \o << Repeat(Str(""), 2 * diff) >>
                ELSE service_provider_data
        z == Zip(spad, cpad)
    IN  <<MergedHeader>> \o [i \in 1..Len(z) |-> z[i][1] \o <<Str("")>> \o z[i][2]]

-----------------------------------------------------------------------------
(* Items, transactions and the financial summary.                          *)

Item(name, description, units, unit_price, amount) ==
    [kind |-> "Item", name |-> name, description |-> description, units |-> units,
     unit_price |-> unit_price, amount |-> amount]

Transaction(transaction_id, gateway, transaction_datetime, amount) ==
    [kind |-> "Transaction", transaction_id |-> transaction_id, gateway |-> gateway,
     transaction_datetime |-> transaction_datetime, amount |-> amount]

IsItem(x) == x.kind = "Item"
IsTransaction(x) == x.kind = "Transaction"

\* SimpleInvoice._item_raw_data_and_subtotal: the rows
ItemRawData(its) ==
    LET v == SelectSeq(its, IsItem)
    IN  [i \in 1..Len(v) |->
            << Str(v[i].name), ParaCell(v[i].description), IntV(v[i].units),
               Format2f(v[i].unit_price), Format2f(v[i].amount) >>]

\* SimpleInvoice._item_raw_data_and_subtotal: the running sum, from 0
RECURSIVE ItemSubtotalFrom(_, _, _)
ItemSubtotalFrom(its, i, acc) ==
    IF i > Len(its) THEN acc
    ELSE ItemSubtotalFrom(its, i + 1, IF IsItem(its[i]) THEN DecAdd(acc, its[i].amount) ELSE acc)

ItemSubtotal(its) == ItemSubtotalFrom(its, 1, Dec(0, 0))

ItemDataTitle ==
    << Str("Name"), Str("Description"), Str("Units"), Str("Unit Price"), Str("Amount") >>

SummaryRow(label, figure) == << Str(label), Str(""), Str(""), Str(""), figure >>

\* self._item_tax_rate: None, or a rate with its text s and its value d
NoRate == [set |-> FALSE, s |-> "", d |-> [c |-> 0, e |-> 0]]
Rate(s, d) == [set |-> TRUE, s |-> s, d |-> d]

\* item_subtotal * (Decimal(str(rate)) / Decimal('100'))
TaxTotal(item_subtotal, rate) == DecMul(item_subtotal, DecMul(rate, Dec(1, -2)))

\* a mutant: the total summed from the rounded subtotal and the rounded tax
TotalFromRoundedParts(item_subtotal, rate, prec) ==
    IF rate = NoRate THEN getroundeddecimal(item_subtotal, prec)
    ELSE DecAdd(getroundeddecimal(item_subtotal, prec),
                getroundeddecimal(TaxTotal(item_subtotal, rate.d), prec))

\* the rounded total of _item_data_and_style: the raw subtotal plus the raw tax
\* (Decimal('0') when there is no tax or the tax is zero), rounded once
RoundTotal(item_subtotal, rate, prec) ==
    LET tax_total == IF rate = NoRate THEN Dec(0, 0) ELSE TaxTotal(item_subtotal, rate.d)
        total == DecAdd(item_subtotal, IF tax_total.c # 0 THEN tax_total ELSE Dec(0, 0))
    IN  getroundeddecimal(total, prec)

\* the table rows of _item_data_and_style (empty when there is no item)
ItemData(its, rate, prec) ==
    LET item_data == ItemRawData(its)
        item_subtotal == ItemSubtotal(its)
    IN  IF item_data = <<>> THEN <<>>
        ELSE <<ItemDataTitle>> \o item_data
             \o << SummaryRow("Subtotal", Format2f(getroundeddecimal(item_subtotal, prec))) >>
             \o (IF rate # NoRate
                 THEN << SummaryRow("Vat/Tax (" \o rate.s \o "%)",
                            Format2f(getroundeddecimal(TaxTotal(item_subtotal, rate.d), prec))) >>
                 ELSE <<>>)
             \o << SummaryRow("Total", Format2f(RoundTotal(item_subtotal, rate, prec))) >>

\* the SPAN and ALIGN directives of one summary row
SummaryStyle(sum_start_y_index) ==
    LET sum_end_x_index == -1 - 1
        sum_start_x_index == Len(ItemDataTitle) - Abs(sum_end_x_index)
    IN  << Directive("SPAN", 0, sum_start_y_index, sum_start_x_index, sum_start_y_index, ""),
           Directive("ALIGN", 0, sum_start_y_index, sum_end_x_index, -1, "RIGHT") >>

\* a mutant: the row index is not advanced for the tax row
ItemStyleTaxNotCounted(its, rate) ==
    LET sum_start_y_index == Len(ItemRawData(its)) + 1
    IN  IF ItemRawData(its) = <<>> THEN <<>>
        ELSE SummaryStyle(sum_start_y_index)
             \o (IF rate # NoRate THEN SummaryStyle(sum_start_y_index) ELSE <<>>)
             \o SummaryStyle(sum_start_y_index + 1)

\* the style list of _item_data_and_style
ItemStyle(its, rate) ==
    LET sum_start_y_index == Len(ItemRawData(its)) + 1
    IN  IF ItemRawData(its) = <<>> THEN <<>>
        ELSE SummaryStyle(sum_start_y_index)
             \o (IF rate # NoRate THEN SummaryStyle(sum_start_y_index + 1) ELSE <<>>)
             \o SummaryStyle(sum_start_y_index + (IF rate # NoRate THEN 1 ELSE 0) + 1)

\* a mutant: the title row inserted whether or not there is a transaction
TransactionsDataTitleAlways(ts) ==
    LET v == SelectSeq(ts, IsTransaction)
    IN  << << Str("Transaction id"), Str("Gateway"), Str("Transaction date"),
              Str("Amount") >> >>
        \o [i \in 1..Len(v) |->
                << Str(v[i].transaction_id), ParaCell(v[i].gateway),
                   FormatValue(v[i].transaction_datetime), Format2f(v[i].amount) >>]

\* SimpleInvoice._transactions_data
TransactionsData(ts) ==
    LET v == SelectSeq(ts, IsTransaction)
        rows == [i \in 1..Len(v) |->
                    << Str(v[i].transaction_id), ParaCell(v[i].gateway),
                       FormatValue(v[i].transaction_datetime), Format2f(v[i].amount) >>]
    IN  IF rows # <<>>
        THEN << << Str("Transaction id"), Str("Gateway"), Str("Transaction date"),
                   Str("Amount") >> >> \o rows
        ELSE rows

-----------------------------------------------------------------------------
(* The values the callers of the model pass.                               *)

\* InvoiceInfo instances
InvoiceInfoInputs ==
    { Entity("InvoiceInfo", [f \in FieldsOf(InvoiceInfoProps) |->
                IF f = "invoice_id" THEN IntV(1023)
                ELSE IF f = "invoice_datetime" THEN DateTime(2015, 7, 8, 9, 5)
                ELSE None]) }

\* an entity of class kind whose populated fields are exactly those in on
Populated(kind, props, on) ==
    Entity(kind, [f \in FieldsOf(props) |-> IF f \in on THEN Str("v-" \o f) ELSE Str("")])

ServiceProviderInputs ==
    { Populated("ServiceProviderInfo", ServiceProviderProps, {}),
      Populated("ServiceProviderInfo", ServiceProviderProps, {"name", "city"}) }

ClientInputs ==
    { Populated("ClientInfo", ClientProps, {"name", "street", "city", "country", "email"}) }

ItemInputs ==
    { Item("Hosting", "web hosting", 1, Dec(1000, -2), Dec(1000, -2)),
      Item("Support", "per hour", 3, Dec(6668, -3), Dec(20005, -3)),
      Item("Storage", "per GB", 2, Dec(22, -3), Dec(44, -3)) }

TransactionInputs ==
    { Transaction("T-1", "Paypal", DateTime(2015, 7, 9, 14, 0), Dec(20095, -3)),
      Transaction("T-2", "Stripe", Date(2015, 7, 10), Dec(500, -2)) }

\* values that are neither an Item nor a Transaction
OtherInputs == { [kind |-> "dict"] }

\* one call of add_item or add_transaction
Called(op, arg) == [op |-> op, arg |-> arg]

RateInputs == { Rate("0", Dec(0, 0)), Rate("10", Dec(10, 0)), Rate("7.5", Dec(75, -1)),
                Rate("100", Dec(100, 0)) }

PrecisionInputs == { Dec(1, -2), Dec(1, -1), Dec(1, -3) }

NoTip == [text |-> "", align |-> "", set |-> FALSE]
BottomTip(text, align) == [text |-> text, align |-> align, set |-> TRUE]
TipInputs == { BottomTip("Thank you", "TA_CENTER") }

NoLogo == Block("NoneType", "", "", <<>>, <<>>, "")
LogoInputs == { Image("logo.png") }

\* PaidStamp(3 * inch, -2 * inch), the offsets in inches
PaidStamp == [key |-> "onFirstPage", x |-> 3, y |-> -2]

RECURSIVE SeqsUpTo(_, _)
SeqsUpTo(S, n) ==
    IF n <= 0 THEN { <<>> }
    ELSE LET shorter == SeqsUpTo(S, n - 1)
         IN  shorter \cup { Append(q, x) : q \in shorter, x \in S }

-----------------------------------------------------------------------------
(* SimpleInvoice.__init__                                                  *)

NoCall == [fn |-> "none"]

InitDoc ==
    /\ invoice_info = NoEntity
    /\ service_provider_info = NoEntity
    /\ client_info = NoEntity
    /\ is_paid = FALSE
    /\ items = <<>>
    /\ item_tax_rate = NoRate
    /\ transactions = <<>>
    /\ story = <<>>
    /\ bottom_tip = NoTip
    /\ logo = NoLogo
    /\ build_kwargs = {}
    /\ built = <<>>

Init ==
    /\ InitDoc
    /\ precision = Dec(1, -2)
    /\ pc = "setup"
    /\ log = <<>>
    /\ call = NoCall
    /\ ret = <<>>

-----------------------------------------------------------------------------
(* The caller populating the document.                                     *)

Setup(changed) == pc = "setup" /\ UNCHANGED <<pc, call, ret>> /\ UNCHANGED changed

\* invoice.invoice_info = v
SetInvoiceInfo(v) ==
    /\ invoice_info' = v
    /\ Setup(<<service_provider_info, client_info, is_paid, precision, items, item_tax_rate,
               transactions, story, bottom_tip, logo, build_kwargs, built, log>>)

\* invoice.service_provider_info = v
SetServiceProviderInfo(v) ==
    /\ service_provider_info' = v
    /\ Setup(<<invoice_info, client_info, is_paid, precision, items, item_tax_rate,
               transactions, story, bottom_tip, logo, build_kwargs, built, log>>)

\* invoice.client_info = v
SetClientInfo(v) ==
    /\ client_info' = v
    /\ Setup(<<invoice_info, service_provider_info, is_paid, precision, items, item_tax_rate,
               transactions, story, bottom_tip, logo, build_kwargs, built, log>>)

\* invoice.is_paid = b
SetIsPaid(b) ==
    /\ is_paid' = b
    /\ Setup(<<invoice_info, service_provider_info, client_info, precision, items,
               item_tax_rate, transactions, story, bottom_tip, logo, build_kwargs, built, log>>)

\* a mutant: the isinstance test dropped
AddItemUnchecked(item) ==
    /\ Len(log) < MaxAdds
    /\ log' = Append(log, Called("add_item", item))
    /\ items' = Append(items, item)
    /\ Setup(<<invoice_info, service_provider_info, client_info, is_paid, precision,
               item_tax_rate, transactions, story, bottom_tip, logo, build_kwargs, built>>)

\* SimpleInvoice.add_item
add_item(item) ==
    /\ Len(log) < MaxAdds
    /\ log' = Append(log, Called("add_item", item))
    /\ items' = IF IsItem(item) THEN Append(items, item) ELSE items
    /\ Setup(<<invoice_info, service_provider_info, client_info, is_paid, precision,
               item_tax_rate, transactions, story, bottom_tip, logo, build_kwargs, built>>)

\* SimpleInvoice.set_item_tax_rate
set_item_tax_rate(rate) ==
    /\ item_tax_rate' = rate
    /\ Setup(<<invoice_info, service_provider_info, client_info, is_paid, precision, items,
               transactions, story, bottom_tip, logo, build_kwargs, built, log>>)

\* SimpleInvoice.add_transaction
add_transaction(t) ==
    /\ Len(log) < MaxAdds
    /\ log' = Append(log, Called("add_transaction", t))
    /\ transactions' = IF IsTransaction(t) THEN Append(transactions, t) ELSE transactions
    /\ Setup(<<invoice_info, service_provider_info, client_info, is_paid, precision, items,
               item_tax_rate, story, bottom_tip, logo, build_kwargs, built>>)

\* SimpleInvoice.set_bottom_tip
set_bottom_tip(tip) ==
    /\ bottom_tip' = tip
    /\ Setup(<<invoice_info, service_provider_info, client_info, is_paid, precision, items,
               item_tax_rate, transactions, story, logo, build_kwargs, built, log>>)

\* SimpleInvoice.logo
SetLogo(image) ==
    /\ logo' = image
    /\ Setup(<<invoice_info, service_provider_info, client_info, is_paid, precision, items,
               item_tax_rate, transactions, story, bottom_tip, build_kwargs, built, log>>)

-----------------------------------------------------------------------------
(* finish(): the section builders, in the order finish() calls them, then  *)
(* the call of build.  Nothing else runs while finish() does.              *)

Step(from, to, changed) ==
    pc = from /\ pc' = to /\ UNCHANGED <<log, call, ret>> /\ UNCHANGED changed

\* finish() is entered
finish ==
    /\ pc = "setup"
    /\ Step("setup", "_build_logo",
         <<invoice_info, service_provider_info, client_info, is_paid, precision, items,
           item_tax_rate, transactions, story, bottom_tip, logo, build_kwargs, built>>)

\* SimpleInvoice._build_logo
BuildLogo ==
    /\ IF logo # NoLogo
       THEN /\ logo' = [logo EXCEPT !.align = "LEFT", !.style = "TOP"]
            /\ story' = Append(story, logo')
       ELSE UNCHANGED <<logo, story>>
    /\ Step("_build_logo", "_build_invoice_info",
            <<invoice_info, service_provider_info, client_info, is_paid, precision, items,
              item_tax_rate, transactions, bottom_tip, build_kwargs, built>>)

\* the blocks _build_invoice_info appends
InvoiceInfoBlocks(ii) ==
    LET invoice_info_data == InvoiceInfoData(ii)
    IN  IF invoice_info_data # <<>>
        THEN << Paragraph("Invoice", "RightHeading1"), SimpleTable(invoice_info_data, "RIGHT") >>
        ELSE <<>>

\* SimpleInvoice._build_invoice_info
BuildInvoiceInfo ==
    /\ story' = story \o InvoiceInfoBlocks(invoice_info)
    /\ Step("_build_invoice_info", "_build_service_provider_and_client_info",
            <<invoice_info, service_provider_info, client_info, is_paid, precision, items,
              item_tax_rate, transactions, bottom_tip, logo, build_kwargs, built>>)

\* the blocks _build_service_provider_info appends
ServiceProviderBlocks(sp) ==
    LET service_provider_info_data == ServiceProviderData(sp)
    IN  IF service_provider_info_data # <<>>
        THEN << Paragraph("Service Provider", "RightHeading1"),
                SimpleTable(service_provider_info_data, "RIGHT") >>
        ELSE <<>>

\* the blocks _build_client_info appends
ClientBlocks(ci) ==
    LET client_info_data == ClientInfoData(ci)
    IN  IF client_info_data # <<>>
        THEN << Paragraph("Client", "Heading1"), SimpleTable(client_info_data, "LEFT") >>
        ELSE <<>>

\* the blocks _build_service_provider_and_client_info appends
PartyBlocks(sp, ci) ==
    IF sp.kind = "ServiceProviderInfo" /\ ci.kind = "ClientInfo"
    THEN << Table(MergedTableData(sp, ci), MergedTableStyle) >>
    ELSE ServiceProviderBlocks(sp) \o ClientBlocks(ci)

\* SimpleInvoice._build_service_provider_and_client_info
BuildServiceProviderAndClientInfo ==
    /\ story' = story \o PartyBlocks(service_provider_info, client_info)
    /\ Step("_build_service_provider_and_client_info", "_build_items",
            <<invoice_info, service_provider_info, client_info, is_paid, precision, items,
              item_tax_rate, transactions, bottom_tip, logo, build_kwargs, built>>)

\* the blocks _build_items appends, the heading of _item_data_and_style included
ItemsBlocks(its, rate, prec) ==
    LET item_data == ItemData(its, rate, prec)
        style == ItemStyle(its, rate)
    IN  (IF ItemRawData(its) # <<>> THEN << Paragraph("Detail", "Heading1") >> ELSE <<>>)
        \o (IF item_data # <<>> THEN << TableWithHeader(item_data, "LEFT", style) >> ELSE <<>>)

\* SimpleInvoice._build_items
BuildItems ==
    /\ story' = story \o ItemsBlocks(items, item_tax_rate, precision)
    /\ Step("_build_items", "_build_transactions",
            <<invoice_info, service_provider_info, client_info, is_paid, precision, items,
              item_tax_rate, transactions, bottom_tip, logo, build_kwargs, built>>)

\* the blocks _build_transactions appends
TransactionsBlocks(ts) ==
    LET transaction_table_data == TransactionsData(ts)
    IN  IF transaction_table_data # <<>>
        THEN << Paragraph("Transaction", "Heading1"),
                TableWithHeader(transaction_table_data, "LEFT", <<>>) >>
        ELSE <<>>

\* SimpleInvoice._build_transactions
BuildTransactions ==
    /\ story' = story \o TransactionsBlocks(transactions)
    /\ Step("_build_transactions", "_build_bottom_tip",
            <<invoice_info, service_provider_info, client_info, is_paid, precision, items,
              item_tax_rate, transactions, bottom_tip, logo, build_kwargs, built>>)

\* the blocks _build_bottom_tip appends
BottomTipBlocks(tip) ==
    IF tip.set /\ tip.text # ""
    THEN << Spacer, Block("Paragraph", tip.text, "BottomTip", <<>>, <<>>, tip.align) >>
    ELSE <<>>

\* SimpleInvoice._build_bottom_tip
BuildBottomTip ==
    /\ story' = story \o BottomTipBlocks(bottom_tip)
    /\ Step("_build_bottom_tip", "_build_paid_stamp",
            <<invoice_info, service_provider_info, client_info, is_paid, precision, items,
              item_tax_rate, transactions, bottom_tip, logo, build_kwargs, built>>)

\* a mutant: the stamp set whether or not the invoice is paid
BuildPaidStampUnconditional ==
    /\ build_kwargs' = {kw \in build_kwargs : kw.key # "onFirstPage"} \cup {PaidStamp}
    /\ Step("_build_paid_stamp", "build",
            <<invoice_info, service_provider_info, client_info, is_paid, precision, items,
              item_tax_rate, transactions, story, bottom_tip, logo, built>>)

\* SimpleInvoice._build_paid_stamp
BuildPaidStamp ==
    /\ build_kwargs' = IF is_paid
                       THEN {kw \in build_kwargs : kw.key # "onFirstPage"} \cup {PaidStamp}
                       ELSE build_kwargs
    /\ Step("_build_paid_stamp", "build",
            <<invoice_info, service_provider_info, client_info, is_paid, precision, items,
              item_tax_rate, transactions, story, bottom_tip, logo, built>>)

\* self.build(self._story, **self._build_kwargs)
Build ==
    /\ built' = Append(built, [story |-> story, kwargs |-> build_kwargs])
    /\ Step("build", "done",
            <<invoice_info, service_provider_info, client_info, is_paid, precision, items,
              item_tax_rate, transactions, story, bottom_tip, logo, build_kwargs>>)

NextFinish ==
    \/ finish
    \/ BuildLogo
    \/ BuildInvoiceInfo
    \/ BuildServiceProviderAndClientInfo
    \/ BuildItems
    \/ BuildTransactions
    \/ BuildBottomTip
    \/ BuildPaidStamp
    \/ Build

\* one valid and one invalid value for each of the two add methods
AddItemInputs ==
    { Item("Hosting", "web hosting", 1, Dec(1000, -2), Dec(1000, -2)),
      Transaction("T-1", "Paypal", DateTime(2015, 7, 9, 14, 0), Dec(20095, -3)) }

AddTransactionInputs == AddItemInputs

NextSetup ==
    \/ \E v \in InvoiceInfoInputs : SetInvoiceInfo(v)
    \/ \E v \in ServiceProviderInputs : SetServiceProviderInfo(v)
    \/ \E v \in ClientInputs : SetClientInfo(v)
    \/ \E b \in BOOLEAN : SetIsPaid(b)
    \/ \E x \in AddItemInputs : add_item(x)
    \/ \E r \in {Rate("10", Dec(10, 0))} : set_item_tax_rate(r)
    \/ \E x \in AddTransactionInputs : add_transaction(x)
    \/ \E t \in TipInputs : set_bottom_tip(t)
    \/ \E l \in LogoInputs : SetLogo(l)

Next == NextSetup \/ NextFinish

Spec == Init /\ [][Next]_vars

-----------------------------------------------------------------------------
(* The two add methods alone, over every kind of argument.                 *)

NextAdd ==
    \/ \E x \in ItemInputs \cup TransactionInputs \cup OtherInputs : add_item(x)
    \/ \E x \in ItemInputs \cup TransactionInputs \cup OtherInputs : add_transaction(x)

SpecAdd == Init /\ [][NextAdd]_vars

-----------------------------------------------------------------------------
(* finish() on a document whose items, tax rate and precision are drawn    *)
(* from the input sets.                                                    *)

InitItems ==
    /\ invoice_info = NoEntity
    /\ service_provider_info = NoEntity
    /\ client_info = NoEntity
    /\ is_paid = FALSE
    /\ items \in SeqsUpTo(ItemInputs, MaxItems)
    /\ item_tax_rate \in RateInputs \cup {NoRate}
    /\ transactions = <<>>
    /\ story = <<>>
    /\ bottom_tip = NoTip
    /\ logo = NoLogo
    /\ build_kwargs = {}
    /\ built = <<>>
    /\ precision \in PrecisionInputs
    /\ pc = "setup"
    /\ log = [i \in 1..Len(items) |-> Called("add_item", items[i])]
    /\ call = NoCall
    /\ ret = <<>>

SpecItems == InitItems /\ [][NextFinish]_vars

-----------------------------------------------------------------------------
(* finish() on a document with both parties set, over every choice of the  *)
(* populated fields of each.                                               *)

InitParty ==
    /\ invoice_info = NoEntity
    /\ service_provider_info \in
         { Populated("ServiceProviderInfo", ServiceProviderProps, on) :
              on \in SUBSET FieldsOf(ServiceProviderProps) }
    /\ client_info \in
         { Populated("ClientInfo", ClientProps, on) : on \in SUBSET FieldsOf(ClientProps) }
    /\ is_paid = FALSE
    /\ items = <<>>
    /\ item_tax_rate = NoRate
    /\ transactions = <<>>
    /\ story = <<>>
    /\ bottom_tip = NoTip
    /\ logo = NoLogo
    /\ build_kwargs = {}
    /\ built = <<>>
    /\ precision = Dec(1, -2)
    /\ pc = "setup"
    /\ log = <<>>
    /\ call = NoCall
    /\ ret = <<>>

SpecParty == InitParty /\ [][NextFinish]_vars

-----------------------------------------------------------------------------
(* getroundeddecimal called directly, then called again on its own result. *)

DecimalInputs == { Dec(c, e) : c \in -MaxCoef..MaxCoef, e \in {-3, -2, -1, 0} }

\* precisions: powers of ten and other steps (0.05, 0.5, 2, ...)
RoundPrecisionInputs == { Dec(c, e) : c \in {1, 2, 5}, e \in {-2, -1, 0} }

InitRound ==
    /\ InitDoc
    /\ precision = Dec(1, -2)
    /\ pc = "setup"
    /\ log = <<>>
    /\ call \in [fn : {"getroundeddecimal"}, nrtoround : DecimalInputs,
                 precision : RoundPrecisionInputs]
    /\ ret = <<>>

\* r = invoice.getroundeddecimal(nrtoround, precision)
CallGetRoundedDecimal ==
    /\ call.fn = "getroundeddecimal"
    /\ ret = <<>>
    /\ ret' = << getroundeddecimal(call.nrtoround, call.precision) >>
    /\ UNCHANGED <<docvars, pc, log, call>>

\* invoice.getroundeddecimal(r, precision)
CallGetRoundedDecimalAgain ==
    /\ call.fn = "getroundeddecimal"
    /\ Len(ret) = 1
    /\ ret' = Append(ret, getroundeddecimal(ret[1], call.precision))
    /\ UNCHANGED <<docvars, pc, log, call>>

NextRound == CallGetRoundedDecimal \/ CallGetRoundedDecimalAgain

SpecRound == InitRound /\ [][NextRound]_vars

-----------------------------------------------------------------------------
(* _attribute_to_table_data called directly.                               *)

AttrValues ==
    { None, Str(""), Str("INV-1"), IntV(0), IntV(1023), Date(2015, 7, 8),
      DateTime(2015, 7, 8, 9, 5) }

InitAttr ==
    /\ InitDoc
    /\ precision = Dec(1, -2)
    /\ pc = "setup"
    /\ log = <<>>
    /\ call \in [fn : {"_attribute_to_table_data"},
                 instance : { Entity("InvoiceInfo", a) :
                                a \in [FieldsOf(InvoiceInfoProps) -> AttrValues] },
                 props : SeqsUpTo({InvoiceInfoProps[i] : i \in 1..Len(InvoiceInfoProps)},
                                  MaxProps)]
    /\ ret = <<>>

\* rows = invoice._attribute_to_table_data(instance, props)
CallAttributeToTableData ==
    /\ call.fn = "_attribute_to_table_data"
    /\ ret = <<>>
    /\ ret' = << AttributeToTableData(call.instance, call.props) >>
    /\ UNCHANGED <<docvars, pc, log, call>>

SpecAttr == InitAttr /\ [][CallAttributeToTableData]_vars

-----------------------------------------------------------------------------
(* Vocabulary of the properties.                                           *)

\* the number of fields of an entity that hold a non-empty value, 0 when the
\* attribute holds no instance of the class cls
SparseRowCount(ent, cls, props) ==
    IF ent.kind # cls THEN 0
    ELSE Cardinality({ i \in 1..Len(props) :
                          ent.attrs[props[i][1]] \notin {None, Str(""), IntV(0)} })

IsHeading(b, text) ==
    b.type = "Paragraph" /\ b.style \in {"Heading1", "RightHeading1"} /\ b.text = text

StoryHasHeading(text) == \E i \in 1..Len(story) : IsHeading(story[i], text)

\* the tables of the story whose first row is the given title row
TablesTitled(type, title) ==
    { i \in 1..Len(story) :
        story[i].type = type /\ Len(story[i].data) > 0 /\ story[i].data[1] = title }

TransactionsTitle ==
    << Str("Transaction id"), Str("Gateway"), Str("Transaction date"), Str("Amount") >>

ItemWasAdded == \E i \in 1..Len(log) : log[i].op = "add_item" /\ log[i].arg.kind = "Item"

TransactionWasAdded ==
    \E i \in 1..Len(log) : log[i].op = "add_transaction" /\ log[i].arg.kind = "Transaction"

PartiesBuilt ==
    pc \in {"_build_items", "_build_transactions", "_build_bottom_tip", "_build_paid_stamp",
            "build", "done"}

ItemsBuilt ==
    pc \in {"_build_transactions", "_build_bottom_tip", "_build_paid_stamp", "build", "done"}

\* the merged party tables of the story
MergedTables == { i \in 1..Len(story) : story[i].type = "Table" }

ProviderRowCount ==
    SparseRowCount(service_provider_info, "ServiceProviderInfo", ServiceProviderProps)

ClientRowCount == SparseRowCount(client_info, "ClientInfo", ClientProps)

BothPartiesSet ==
    service_provider_info.kind = "ServiceProviderInfo" /\ client_info.kind = "ClientInfo"

-----------------------------------------------------------------------------
(* C1: with both parties set, the merged party table has max(p, c) data    *)
(* rows plus one header row, p and c being the sparse row counts of the    *)
(* provider and of the client.                                             *)
C1_MergedRowCount ==
    (PartiesBuilt /\ BothPartiesSet) =>
        /\ MergedTables # {}
        /\ \A i \in MergedTables :
              Len(story[i].data) = Max(ProviderRowCount, ClientRowCount) + 1

-----------------------------------------------------------------------------
(* C2: with both parties set, every data row of the merged party table has *)
(* exactly five cells, the third one blank, the first two holding the      *)
(* i-th provider row and the last two the i-th client row, blank cells     *)
(* standing in for a padded side.                                          *)
C2_FiveCellRows ==
    (PartiesBuilt /\ BothPartiesSet) =>
        \A i \in MergedTables :
            \A r \in 2..Len(story[i].data) :
                LET row == story[i].data[r]
                    prows == ServiceProviderData(service_provider_info)
                    crows == ClientInfoData(client_info)
                    blank == << Str(""), Str("") >>
                IN  /\ Len(row) = 5
                    /\ row[3] = Str("")
                    /\ << row[1], row[2] >> = (IF r - 1 <= Len(prows) THEN prows[r - 1] ELSE blank)
                    /\ << row[4], row[5] >> = (IF r - 1 <= Len(crows) THEN crows[r - 1] ELSE blank)

-----------------------------------------------------------------------------
(* C3 as stated, at the default precision 0.01: for a non-empty item list  *)
(* the figure of the Total row is the sum of the figures of the Subtotal   *)
(* row and of the Vat/Tax row (the Subtotal figure alone when no tax rate  *)
(* is set).                                                                *)

ItemsTable == story[CHOOSE i \in TablesTitled("TableWithHeader", ItemDataTitle) : TRUE].data

SubtotalFigure == ItemsTable[Len(items) + 2][5].n
TotalFigure == ItemsTable[Len(ItemsTable)][5].n
TaxFigure == IF item_tax_rate.set THEN ItemsTable[Len(items) + 3][5].n ELSE 0

C3_TotalIsSumOfFigures ==
    (pc = "done" /\ items # <<>> /\ precision = Dec(1, -2)) =>
        TotalFigure = SubtotalFigure + TaxFigure

(* C3 as amended: the figure of the Total row is the raw sum of the item   *)
(* amounts plus the raw, unrounded tax of that sum, rounded once           *)
(* half-up to the precision and then shown with two decimals; without a    *)
(* tax rate it is the Subtotal figure, and at precision 0.01 it is within  *)
(* one hundredth of the sum of the Subtotal and Vat/Tax figures.           *)

RECURSIVE SumThousandths(_)
SumThousandths(its) ==
    IF its = <<>> THEN 0
    ELSE its[1].amount.c * Pow10(its[1].amount.e + 3) + SumThousandths(Tail(its))

\* the raw total in millionths: the sum, plus the sum times the rate percent
RawTotalMillionths ==
    LET a == SumThousandths(items)
        r == item_tax_rate.d.c * Pow10(item_tax_rate.d.e + 1)
    IN  a * 1000 + (IF item_tax_rate.set THEN a * r ELSE 0)

\* arithmetic rounding of x >= 0 to a multiple of u
NearestHalfUp(x, u) == ((2 * x + u) \div (2 * u)) * u
NearestHalfEven(x, u) ==
    LET q == x \div u
        r == x % u
    IN  (IF 2 * r > u \/ (2 * r = u /\ q % 2 = 1) THEN q + 1 ELSE q) * u

C3_TotalIsRoundedRawSum ==
    (pc = "done" /\ items # <<>>) =>
        /\ TotalFigure * 10000
              = NearestHalfEven(NearestHalfUp(RawTotalMillionths, Pow10(precision.e + 6)), 10000)
        /\ ~item_tax_rate.set => TotalFigure = SubtotalFigure
        /\ precision = Dec(1, -2) =>
              TotalFigure - (SubtotalFigure + TaxFigure) \in {-1, 0, 1}

\* a tax rate is set and the Total figure is not the sum of the two figures above it
C3_Witness ==
    /\ pc = "done"
    /\ items # <<>>
    /\ item_tax_rate.set
    /\ precision = Dec(1, -2)
    /\ TotalFigure = SubtotalFigure + TaxFigure + 1

-----------------------------------------------------------------------------
(* C4 as stated: getroundeddecimal returns the multiple of precision       *)
(* nearest to the value, exact ties rounded away from zero, and rounding   *)
(* its result again changes nothing.                                       *)

\* a decimal in units of 10^e0
InUnits(d, e0) == d.c * Pow10(d.e - e0)

\* r is the multiple of step nearest to v, ties away from zero
IsNearestMultiple(r, v, step) ==
    /\ r % step = 0
    /\ 2 * Abs(v - r) <= step
    /\ 2 * Abs(v - r) = step => Abs(r) > Abs(v)

C4_NearestMultipleOfPrecision ==
    (call.fn = "getroundeddecimal" /\ Len(ret) >= 1) =>
        LET e0 == Min(call.nrtoround.e, call.precision.e)
        IN  /\ IsNearestMultiple(InUnits(ret[1], e0), InUnits(call.nrtoround, e0),
                                 InUnits(call.precision, e0))
            /\ Len(ret) = 2 => ret[2] = ret[1]

(* C4 as amended: getroundeddecimal returns the multiple of 10^e nearest   *)
(* to the value, e being the exponent of precision, exact ties rounded     *)
(* away from zero, and rounding its result again changes nothing.          *)
C4_NearestMultipleOfExponentUnit ==
    (call.fn = "getroundeddecimal" /\ Len(ret) >= 1) =>
        LET e0 == Min(call.nrtoround.e, call.precision.e)
        IN  /\ ret[1].e = call.precision.e
            /\ IsNearestMultiple(InUnits(ret[1], e0), InUnits(call.nrtoround, e0),
                                 Pow10(call.precision.e - e0))
            /\ Len(ret) = 2 => ret[2] = ret[1]

\* the tie 0.025 at precision 0.01 has gone up to 0.03, and was rounded again
C4_Witness ==
    /\ call.fn = "getroundeddecimal"
    /\ call.nrtoround = Dec(25, -3)
    /\ call.precision = Dec(1, -2)
    /\ ret = << Dec(3, -2), Dec(3, -2) >>

-----------------------------------------------------------------------------
(* C5: _attribute_to_table_data returns one row [label + ":", formatted    *)
(* value] per listed field whose value is non-empty, none for an empty     *)
(* field, in the order of the list.                                        *)

\* the texts strftime gives for the two dates of AttrValues
ExpectedText(v) ==
    IF v = Date(2015, 7, 8) THEN Str("2015-07-08")
    ELSE IF v = DateTime(2015, 7, 8, 9, 5) THEN Str("2015-07-08 09:05")
    ELSE v

C5_SparseRows ==
    (call.fn = "_attribute_to_table_data" /\ Len(ret) = 1) =>
        LET rows == ret[1]
            props == call.props
            value(i) == call.instance.attrs[props[i][1]]
            on == { i \in 1..Len(props) : value(i) \notin {None, Str(""), IntV(0)} }
        IN  /\ Len(rows) = Cardinality(on)
            /\ \A i \in on :
                  rows[Cardinality({ j \in on : j <= i })]
                     = << Str(props[i][2] \o ":"), ExpectedText(value(i)) >>

\* three fields listed, the first empty, the other two a date-time and a number
C5_Witness ==
    /\ call.fn = "_attribute_to_table_data"
    /\ call.props = InvoiceInfoProps
    /\ call.instance.attrs["invoice_id"] = Str("")
    /\ ret = << << << Str("Invoice date:"), Str("2015-07-08 09:05") >>,
                   << Str("Invoice due date:"), IntV(1023) >> >> >>

-----------------------------------------------------------------------------
(* C6: whatever add_item and add_transaction were called with, the item    *)
(* sequence holds exactly the Items given to add_item and the transaction  *)
(* sequence exactly the Transactions given to add_transaction, in call     *)
(* order; no call fails and no call touches any other field.               *)

RECURSIVE ValidArgs(_, _, _)
ValidArgs(calls, op, kind) ==
    IF calls = <<>> THEN <<>>
    ELSE (IF calls[1].op = op /\ calls[1].arg.kind = kind THEN << calls[1].arg >> ELSE <<>>)
         \o ValidArgs(Tail(calls), op, kind)

C6_AddsKeepValidInOrder ==
    /\ items = ValidArgs(log, "add_item", "Item")
    /\ transactions = ValidArgs(log, "add_transaction", "Transaction")
    /\ <<invoice_info, service_provider_info, client_info>> = <<NoEntity, NoEntity, NoEntity>>
    /\ <<is_paid, precision, item_tax_rate>> = <<FALSE, Dec(1, -2), NoRate>>
    /\ <<story, bottom_tip, logo, build_kwargs, built>> = <<<<>>, NoTip, NoLogo, {}, <<>>>>
    /\ Len(log) < MaxAdds =>
          \A x \in ItemInputs \cup TransactionInputs \cup OtherInputs :
              ENABLED add_item(x) /\ ENABLED add_transaction(x)

\* a Transaction was handed to add_item and dropped, then an Item was kept
C6_Witness ==
    /\ Len(log) = 2
    /\ log[1].op = "add_item" /\ log[1].arg.kind = "Transaction"
    /\ log[2].op = "add_item" /\ log[2].arg.kind = "Item"
    /\ Len(items) = 1
    /\ transactions = <<>>

-----------------------------------------------------------------------------
(* C7: after finish() the story holds the Detail heading and the items     *)
(* table exactly when an Item was added, and the Transaction heading and   *)
(* the transactions table exactly when a Transaction was added; without    *)
(* items no table holds a title row or a summary row.                      *)

SummaryLabels == { Str("Name"), Str("Subtotal"), Str("Total") }
                   \cup { Str("Vat/Tax (" \o r.s \o "%)") : r \in RateInputs }

C7_SectionsIffAdded ==
    pc = "done" =>
        /\ StoryHasHeading("Detail") <=> ItemWasAdded
        /\ TablesTitled("TableWithHeader", ItemDataTitle) # {} <=> ItemWasAdded
        /\ StoryHasHeading("Transaction") <=> TransactionWasAdded
        /\ TablesTitled("TableWithHeader", TransactionsTitle) # {} <=> TransactionWasAdded
        /\ ~ItemWasAdded =>
              \A i \in 1..Len(story) : \A r \in 1..Len(story[i].data) :
                  story[i].data[r][1] \notin SummaryLabels

\* a tax rate but no item: neither heading nor table; a transaction: both
C7_Witness ==
    /\ pc = "done"
    /\ item_tax_rate.set
    /\ ~ItemWasAdded
    /\ \E i \in 1..Len(log) : log[i].op = "add_item"
    /\ TransactionWasAdded
    /\ StoryHasHeading("Transaction")
    /\ ~StoryHasHeading("Detail")

-----------------------------------------------------------------------------
(* C8: the blocks of the story stand in the order logo, invoice info,      *)
(* provider, client, items, transactions, bottom tip; no block is the paid *)
(* stamp, which build receives as onFirstPage exactly when is_paid is set; *)
(* build is called once, with the finished story.                          *)

RECURSIVE SectionOf(_)
SectionOf(i) ==
    LET b == story[i]
    IN  IF b.type = "Image" THEN 1
        ELSE IF IsHeading(b, "Invoice") THEN 2
        ELSE IF IsHeading(b, "Service Provider") \/ b.type = "Table" THEN 3
        ELSE IF IsHeading(b, "Client") THEN 4
        ELSE IF IsHeading(b, "Detail") THEN 5
        ELSE IF IsHeading(b, "Transaction") THEN 6
        ELSE IF b.type = "Spacer" \/ (b.type = "Paragraph" /\ b.style = "BottomTip") THEN 7
        ELSE IF b.type \in {"SimpleTable", "TableWithHeader"} /\ i > 1 THEN SectionOf(i - 1)
        ELSE 0

C8_FixedOrderAndStamp ==
    /\ \A i \in 1..Len(story) : SectionOf(i) \in 1..7
    /\ \A i, j \in 1..Len(story) : i < j => SectionOf(i) <= SectionOf(j)
    /\ \A i, j \in 1..Len(story) :
          (i < j /\ SectionOf(i) = SectionOf(j)) =>
              (j = i + 1 /\ story[i].type \in {"Paragraph", "Spacer"}
                         /\ story[j].type # story[i].type)
    /\ pc # "done" <=> built = <<>>
    /\ pc = "done" =>
          /\ Len(built) = 1
          /\ built[1].story = story
          /\ PaidStamp \in built[1].kwargs <=> is_paid
          /\ built[1].kwargs \subseteq {PaidStamp}
          /\ logo # NoLogo <=> \E i \in 1..Len(story) : SectionOf(i) = 1
          /\ SparseRowCount(invoice_info, "InvoiceInfo", InvoiceInfoProps) > 0
                <=> \E i \in 1..Len(story) : SectionOf(i) = 2
          /\ ItemWasAdded <=> \E i \in 1..Len(story) : SectionOf(i) = 5
          /\ TransactionWasAdded <=> \E i \in 1..Len(story) : SectionOf(i) = 6
          /\ bottom_tip.set <=> \E i \in 1..Len(story) : SectionOf(i) = 7

\* a paid invoice with every section present has been handed to build
C8_Witness ==
    /\ pc = "done"
    /\ is_paid
    /\ { SectionOf(i) : i \in 1..Len(story) } = {1, 2, 3, 5, 6, 7}
    /\ built[1].kwargs = {PaidStamp}

-----------------------------------------------------------------------------
(* C9: a section whose entity yields no sparse row puts no heading and no  *)
(* table into the story: the invoice info, the provider and the client,    *)
(* whatever the other entities are.                                        *)

\* the headings of the story, the heading cells of a merged table included
HeadingShown(text) ==
    \/ StoryHasHeading(text)
    \/ \E i \in MergedTables : \E c \in 1..Len(story[i].data[1]) :
          story[i].data[1][c] = ParaCell(text)

C9_NoRowsNoBlock ==
    pc = "done" =>
        /\ SparseRowCount(invoice_info, "InvoiceInfo", InvoiceInfoProps) = 0
              => ~HeadingShown("Invoice")
        /\ ProviderRowCount = 0 => ~HeadingShown("Service Provider")
        /\ ClientRowCount = 0 => ~HeadingShown("Client")
        /\ (ProviderRowCount = 0 /\ ClientRowCount = 0) => MergedTables = {}

-----------------------------------------------------------------------------
(* C10: the items table carries one SPAN and one ALIGN directive per       *)
(* summary row, each starting on the row of its summary row; a SPAN stays  *)
(* on that row from column 0 and stops before the last column; no          *)
(* directive addresses a row outside the table.                            *)

ItemsBlock == story[CHOOSE i \in TablesTitled("TableWithHeader", ItemDataTitle) : TRUE]

\* the 0-based row of the table a directive's row index addresses
RowAddressed(r, nrows) == IF r < 0 THEN nrows + r ELSE r

C10_SummaryDirectives ==
    (ItemsBuilt /\ items # <<>>) =>
        LET data == ItemsBlock.data
            style == ItemsBlock.tstyle
            n == Len(items)
            labels == << "Subtotal" >>
                      \o (IF item_tax_rate.set
                          THEN << "Vat/Tax (" \o item_tax_rate.s \o "%)" >> ELSE <<>>)
                      \o << "Total" >>
            of(op, row) == { k \in 1..Len(style) : style[k].op = op /\ style[k].r0 = row }
        IN  /\ Len(data) = n + 1 + Len(labels)
            /\ Len(style) = 2 * Len(labels)
            /\ \A k \in 1..Len(labels) :
                  /\ data[n + 1 + k][1] = Str(labels[k])
                  /\ Cardinality(of("SPAN", n + k)) = 1
                  /\ Cardinality(of("ALIGN", n + k)) = 1
            /\ \A k \in 1..Len(style) :
                  /\ style[k].op \in {"SPAN", "ALIGN"}
                  /\ RowAddressed(style[k].r0, Len(data)) \in 0..(Len(data) - 1)
                  /\ RowAddressed(style[k].r1, Len(data)) \in 0..(Len(data) - 1)
                  /\ style[k].op = "SPAN" =>
                        /\ style[k].r1 = style[k].r0
                        /\ style[k].c0 = 0
                        /\ style[k].c1 \in 0..(Len(data[1]) - 2)

\* two items and a tax rate: Subtotal, Vat/Tax and Total on rows 3, 4 and 5
C10_Witness ==
    /\ pc = "done"
    /\ Len(items) = 2
    /\ item_tax_rate.set
    /\ Len(ItemsBlock.tstyle) = 6
    /\ ItemsBlock.tstyle[5].r0 = 5

====
